---- MODULE Spec2Model ----
(***************************************************************************)
(* switch_dns.py: one command-line invocation after another against one    *)
(* network interface and one dns_groups.json file.                         *)
(*                                                                         *)
(* The state is the live DNS server lists of the interface (what netsh     *)
(* changes and ipconfig prints), the catalog file on disk, and the running *)
(* process: its in-memory dns_groups, its docopt args, the locals of       *)
(* set_dns and a program counter.  The OS collaborators are fire-and-      *)
(* forget: each netsh command either takes effect or silently does not.    *)
(***************************************************************************)
EXTENDS Integers, Sequences, FiniteSets, TLC

VARIABLES
    live,         \* the interface's DNS servers: [ipv6 |-> Seq, ipv4 |-> Seq]
    disk,         \* dns_groups.json: group name -> [ipv6, ipv4]
    dns_groups,   \* the module-level dict of the running process
    dns_group,    \* main's local dns_group (line 195)
    IS_ADMIN,     \* result of the "net session" probe
    args,         \* docopt's parsed command line
    pc,           \* position of the process
    callNo,       \* which set_dns call of main is running (1..4)
    ip_ver, index, new_dns,      \* set_dns parameters
    old_dns, true_dns,           \* set_dns locals
    outcome,      \* how the last set_dns call ended
    err,          \* the exception that ended the process, or "-"
    out,          \* lines printed by this process
    nDel, nAdd, nRead, nPersist, \* OS commands issued by this process
    calls,        \* the set_dns calls made by this process, in order
    results,      \* the set_dns calls of this process that returned
    osReflects,   \* every netsh command of this process took effect
    entry,        \* snapshot taken when the current set_dns call was entered
    start,        \* snapshot taken when the process started
    lastCall,     \* the most recent set_dns call that returned (any process)
    repeatOf,     \* outcome of lastCall when this call repeats it, else "-"
    unconfirmed,  \* some set_dns call of this process ended Unconfirmed
    conf4p,       \* old address of this process's Confirmed (ipv4, 1) change
    prevRun,      \* what the immediately preceding process left behind:
                  \* whether it wrote the file, its conf4p, and, when it was
                  \* a set -G that ended with every netsh command having
                  \* taken effect, the group and the interface it started on
    runs          \* processes started so far

vars == << live, disk, dns_groups, dns_group, IS_ADMIN, args, pc, callNo,
           ip_ver, index, new_dns, old_dns, true_dns, outcome, err, out,
           nDel, nAdd, nRead, nPersist, calls, results, osReflects, entry,
           start, lastCall, repeatOf, unconfirmed, conf4p, prevRun, runs >>

---------------------------------------------------------------------------
(* Bounds *)

\* Longest DNS server list an interface starts with.
MaxLive == 2

\* Invocations of the script, one after the other.
MaxRuns == 2

---------------------------------------------------------------------------
(* Addresses and the catalog file *)

\* Addresses the interface starts with.
LiveAddr == [ipv6 |-> {"2620:fe::fe", "2620:fe::9"},
             ipv4 |-> {"1.1.1.1", "1.0.0.1"}]

\* The named groups of dns_groups.json (line 78): one full group, one whose
\* ipv4 list has a single address.
NamedGroups ==
    ("quad9" :> [ipv6 |-> <<"2620:fe::fe", "2620:fe::9">>,
                 ipv4 |-> <<"9.9.9.9", "149.112.112.112">>]) @@
    ("solo"  :> [ipv6 |-> <<"2620:fe::9", "2620:fe::fe">>,
                 ipv4 |-> <<"9.9.9.9">>])

Range(s) == {s[i] : i \in 1..Len(s)}

\* Duplicate-free sequences over S of length at most n.
RECURSIVE DistinctSeqs(_, _)
DistinctSeqs(S, n) ==
    IF n = 0 THEN {<< >>}
    ELSE LET shorter == DistinctSeqs(S, n - 1)
         IN  shorter \cup
             UNION {{Append(s, a) : a \in S \ Range(s)} : s \in shorter}

NoGroups == [n \in {} |-> 0]

\* What /prev may hold in dns_groups.json before the first run: what earlier
\* runs left there, or what the user wrote (the file is edited by hand).
PrevAtStart ==
    [ipv6 : {<<"2620:fe::fe", "2620:fe::9">>,
             <<"2620:fe::9", "2620:fe::fe">>,
             <<"2606:4700:4700::1111", "2606:4700:4700::1001">>},
     ipv4 : {<<"1.1.1.1", "1.0.0.1">>, <<"9.9.9.9", "1.1.1.1">>,
             <<"1.0.0.1", "1.0.0.1">>,
             <<"1.1.1.1", "1.0.0.1", "149.112.112.112">>}]

---------------------------------------------------------------------------
(* Python list indexing *)

\* Position (1-based) of Python index i in list s; negative i counts from
\* the end.
PyPos(s, i) == IF i >= 0 THEN i + 1 ELSE Len(s) + i + 1

\* s[i] does not raise IndexError.
PyInRange(s, i) == PyPos(s, i) \in 1..Len(s)

PyGet(s, i) == s[PyPos(s, i)]

PySet(s, i, v) == [s EXCEPT ![PyPos(s, i)] = v]

---------------------------------------------------------------------------
(* Helper functions *)

\* index_to_tier (lines 83-88)
index_to_tier(i) ==
    IF i = 1 THEN <<"Primary">>
    ELSE IF i = 2 THEN <<"Reserve">>
    ELSE <<"Index", i>>

\* "IPv" + ip_ver[-1] (line 117)
IPvX(v) == IF v = "ipv6" THEN "IPv6" ELSE "IPv4"

\* The tokens of "ipconfig /all" (line 100): other sections around the one
\* DNS Servers section, which lists the ipv6 servers and then the ipv4 ones.
HDR == "DNS Servers . . . :"

ipconfig(l) ==
    <<"Wireless LAN adapter Wi-Fi:">> \o <<HDR>> \o l.ipv6 \o l.ipv4
        \o <<"NetBIOS over Tcpip . . . : Enabled">>

\* Tokens made only of [0-9a-f:] (line 96) and only of [0-9.] (line 97).
HexColonShaped == {"2620:fe::fe", "2620:fe::9", "2606:4700:4700::1111",
                   "2606:4700:4700::1001"}
DigitDotShaped == {"1.1.1.1", "1.0.0.1", "9.9.9.9", "149.112.112.112"}

\* dns_pattern matched right after the header at position h (lines 94-98):
\* the longest run of ipv6-shaped tokens that still leaves an ipv4-shaped
\* token behind it, then the longest run of ipv4-shaped tokens.
V6Runs(text, h) ==
    {k \in 1..(Len(text) - h - 1) :
        /\ \A j \in 1..k : text[h + j] \in HexColonShaped
        /\ text[h + k + 1] \in DigitDotShaped}

V4Runs(text, p) ==
    {m \in 1..(Len(text) - p) :
        \A j \in 1..m : text[p + j] \in DigitDotShaped}

SetMax(S) == CHOOSE x \in S : \A y \in S : y <= x
SetMin(S) == CHOOSE x \in S : \A y \in S : x <= y

\* Header positions at which the pattern matches; re.search takes the first.
MatchStarts(text) ==
    {h \in 1..Len(text) : text[h] = HDR /\ V6Runs(text, h) # {}}

\* re.split(r"\s+", group)[:-1] (lines 103-104): the group ends in
\* whitespace, so the split yields its tokens and one empty string.
re_split(tokens) == tokens \o <<"">>
DropLast(s) == SubSeq(s, 1, Len(s) - 1)

\* get_curr_dns_servers (lines 91-106); found = FALSE is re.search
\* returning None, on which .groupdict() raises AttributeError.
get_curr_dns_servers(l) ==
    LET text == ipconfig(l)
    IN  IF MatchStarts(text) = {}
        THEN [found |-> FALSE, ipv6 |-> << >>, ipv4 |-> << >>]
        ELSE LET h == SetMin(MatchStarts(text))
                 k == SetMax(V6Runs(text, h))
                 m == SetMax(V4Runs(text, h + k))
             IN  [found |-> TRUE,
                  ipv6  |-> DropLast(re_split(SubSeq(text, h + 1, h + k))),
                  ipv4  |-> DropLast(re_split(SubSeq(text, h + k + 1,
                                                     h + k + m)))]

Cfg(m) == [ipv6 |-> m.ipv6, ipv4 |-> m.ipv4]

---------------------------------------------------------------------------
(* The OS mutation commands *)

Remove(s, a) == SelectSeq(s, LAMBDA x : x # a)

InsertAt(s, a, i) == SubSeq(s, 1, i - 1) \o <<a>> \o SubSeq(s, i, Len(s))

\* netsh interface <ver> del dns "Wi-Fi" <addr> (line 129) can take effect
\* when the address is configured.
CanDel(l, v, a) == a \in Range(l[v])

netsh_del(l, v, a) == [l EXCEPT ![v] = Remove(@, a)]

\* netsh interface <ver> add dns "Wi-Fi" <addr> <index> (line 132) can take
\* effect when the address is not configured yet and the index is a
\* position of the list or the one after its end.
CanAdd(l, v, a, i) == a \notin Range(l[v]) /\ i \in 1..(Len(l[v]) + 1)

netsh_add(l, v, a, i) == [l EXCEPT ![v] = InsertAt(@, a, i)]

---------------------------------------------------------------------------
(* The command line *)

\* str.lower() on the argument strings a request may carry (lines 176-178,
\* 195, 215).
Lower(s) ==
    IF s = "Quad9" THEN "quad9"
    ELSE IF s = "Reserve" THEN "reserve"
    ELSE s

\* int() on the numeric tier literals (line 183).
int == ("0" :> 0) @@ ("1" :> 1) @@ ("2" :> 2) @@ ("3" :> 3)

\* re.match(r"(primary|reserve|\d+)", tier) (line 180)
TierMatches(tier) == tier \in {"primary", "reserve"} \cup DOMAIN int

\* Numeric literals taken as 0-based positions.
TierIndexZeroBased(tier) ==
    IF tier = "primary" THEN 1
    ELSE IF tier = "reserve" THEN 2
    ELSE int[tier] + 1

\* lines 181-183
TierIndex(tier) ==
    IF tier = "primary" THEN 1
    ELSE IF tier = "reserve" THEN 2
    ELSE int[tier]

NoArgs == [set |-> FALSE, get |-> FALSE, single |-> FALSE, group |-> FALSE,
           groups |-> FALSE, dns_group |-> "-", ip_ver |-> "-",
           tier |-> "-", new_dns |-> "-", quiet |-> FALSE]

\* switch_dns.py set -S <ip_ver> <tier> <new_dns> [-q] (line 63)
SingleArgs ==
    {[NoArgs EXCEPT !.set = TRUE, !.single = TRUE, !.ip_ver = v,
                    !.tier = t, !.new_dns = a, !.quiet = q] :
        v \in {"ipv4"},
        t \in {"primary", "1", "Reserve", "2", "3", "0", "top"},
        a \in {"1.1.1.1", "9.9.9.9"}, q \in {FALSE}}
    \cup
    {[NoArgs EXCEPT !.set = TRUE, !.single = TRUE, !.ip_ver = "ipv4",
                    !.tier = "primary", !.new_dns = "9.9.9.9",
                    !.quiet = TRUE]}
    \cup
    {[NoArgs EXCEPT !.set = TRUE, !.single = TRUE, !.ip_ver = "ipv6",
                    !.tier = t, !.new_dns = "2620:fe::9", !.quiet = FALSE] :
        t \in {"primary", "reserve"}}

\* switch_dns.py set -G <dns_group> [-q] (line 62)
GroupArgs ==
    {[NoArgs EXCEPT !.set = TRUE, !.group = TRUE, !.dns_group = g,
                    !.quiet = q] :
        g \in {"Quad9", "solo", "/prev", "/curr", "nope"}, q \in {FALSE}}
    \cup
    {[NoArgs EXCEPT !.set = TRUE, !.group = TRUE, !.dns_group = "Quad9",
                    !.quiet = TRUE]}

\* switch_dns.py get (/groups | <dns_group>) (line 64)
GetArgs ==
    {[NoArgs EXCEPT !.get = TRUE, !.groups = TRUE]}
    \cup
    {[NoArgs EXCEPT !.get = TRUE, !.dns_group = g] :
        g \in {"Quad9", "/prev", "/curr", "nope"}}

Requests == SingleArgs \cup GroupArgs \cup GetArgs

---------------------------------------------------------------------------
(* Pieces of set_dns and main *)

\* The four set_dns calls of a group request, in order (lines 196-199).
GroupOrder == << <<"ipv6", 1>>, <<"ipv6", 2>>, <<"ipv4", 1>>, <<"ipv4", 2>> >>

\* A guard that lets tier 3 through.
UnsupportedAbove3(i) == i > 3

\* index > 2 (line 113)
Unsupported(i) == i > 2

\* A comparison that never finds the entry already set.
AlreadySetNever(old, new) == FALSE

\* old_dns == new_dns (line 124)
AlreadySet(old, new) == old = new

\* A confirmation that never succeeds.
TookEffectNever(true, new) == FALSE

\* true_dns == new_dns (line 139)
TookEffect(true, new) == true = new

\* Remembering the address just set instead of the one it replaced.
RecordPreviousNew(g, v, i, old, new) ==
    [g EXCEPT !["/prev"][v] = PySet(@, i - 1, new)]

\* Remembering the replaced address at the other tier.
RecordPreviousOtherTier(g, v, i, old, new) ==
    [g EXCEPT !["/prev"][v] = PySet(@, 2 - i, old)]

\* dns_groups["/prev"][ip_ver][index - 1] = old_dns (line 140)
RecordPrevious(g, v, i, old, new) ==
    [g EXCEPT !["/prev"][v] = PySet(@, i - 1, old)]

\* A /curr that is filled once and kept.
RefreshCurrentOnce(g, cfg) ==
    IF "/curr" \in DOMAIN g THEN g ELSE ("/curr" :> cfg) @@ g

\* dns_groups["/curr"] = ... (lines 135, 163)
RefreshCurrent(g, cfg) == ("/curr" :> cfg) @@ g

\* Writing the catalog without dropping /curr first.
PopNothing(g) == g

\* dns_groups.pop("/curr") (lines 189, 201)
PopCurrent(g) == [n \in DOMAIN g \ {"/curr"} |-> g[n]]

\* main's dns_group is the very list object set_dns writes (lines 140, 195)
Aliased == args.group /\ Lower(args.dns_group) = "/prev"

\* Saving the catalog after every set_dns call.
AfterReturnSave == "persist"

\* Where main goes when set_dns returns None (lines 187-189, 196-201).
AfterReturn ==
    IF args.group /\ callNo < Len(GroupOrder) THEN "group_arg" ELSE "persist"

NullCfg == [ipv6 |-> << >>, ipv4 |-> << >>]

NoEntry == [live |-> NullCfg, prev |-> NullCfg, curr |-> NullCfg,
            nDel |-> 0, nAdd |-> 0, nRead |-> 0]

NoCall == [ip_ver |-> "-", index |-> 0, new_dns |-> "-", outcome |-> "-"]

---------------------------------------------------------------------------
(* Initial state: no process has run yet *)

Init ==
    /\ live \in [ipv6 : DistinctSeqs(LiveAddr.ipv6, MaxLive),
                 ipv4 : DistinctSeqs(LiveAddr.ipv4, MaxLive)]
    /\ \E p \in PrevAtStart : disk = ("/prev" :> p) @@ NamedGroups
    /\ dns_groups = NoGroups
    /\ dns_group = NullCfg
    /\ IS_ADMIN = FALSE
    /\ args = NoArgs
    /\ pc = "idle"
    /\ callNo = 0
    /\ ip_ver = "-" /\ index = 0 /\ new_dns = "-"
    /\ old_dns = "-" /\ true_dns = "-"
    /\ outcome = "-"
    /\ err = "-"
    /\ out = << >>
    /\ nDel = 0 /\ nAdd = 0 /\ nRead = 0 /\ nPersist = 0
    /\ calls = << >>
    /\ results = << >>
    /\ osReflects = TRUE
    /\ entry = NoEntry
    /\ start = [live |-> NullCfg, disk |-> NoGroups]
    /\ lastCall = NoCall
    /\ repeatOf = "-"
    /\ unconfirmed = FALSE
    /\ conf4p = << >>
    /\ prevRun = [persisted |-> FALSE, conf4p |-> << >>,
                  group |-> "-", live |-> NullCfg]
    /\ runs = 0

---------------------------------------------------------------------------
(* Process start: module import and the first lines of main *)

locals == << callNo, ip_ver, index, new_dns, old_dns, true_dns >>
counters == << nDel, nAdd, nRead, nPersist >>
history == << calls, results, osReflects, entry, start, lastCall, repeatOf,
              unconfirmed, conf4p, prevRun, runs >>

\* The process raises exc and ends.
Raise(exc) == pc' = "crashed" /\ err' = exc

\* A new process: IS_ADMIN probe (line 55), json.load (line 78),
\* docopt (line 160), dns_groups["/curr"] = get_curr_dns_servers() (line 163).
Start ==
    /\ pc = "idle"
    /\ runs < MaxRuns
    /\ runs' = runs + 1
    /\ \E a \in Requests, adm \in BOOLEAN :
        /\ args' = a
        /\ IS_ADMIN' = adm
    /\ LET cur == get_curr_dns_servers(live)
       IN  IF cur.found
           THEN /\ dns_groups' = RefreshCurrent(disk, Cfg(cur))
                /\ pc' = "main"
                /\ err' = "-"
           ELSE /\ dns_groups' = disk
                /\ Raise("AttributeError")
    /\ start' = [live |-> live, disk |-> disk]
    /\ UNCHANGED << live, disk, dns_group, locals, outcome, out, counters,
                    calls, results, osReflects, entry, lastCall, repeatOf,
                    unconfirmed, conf4p, prevRun >>

\* The process ends: main returns (line 229) or the exception leaves it.
\* Nothing of the process survives but the interface and the file.
Exit ==
    /\ pc \in {"done", "crashed"}
    /\ pc' = "idle"
    /\ LET applied == /\ args.set /\ args.group /\ nPersist = 1
                      /\ osReflects
       IN  prevRun' = [persisted |-> nPersist = 1,
                       conf4p |-> IF nPersist = 1 THEN conf4p ELSE << >>,
                       group |-> IF applied THEN Lower(args.dns_group)
                                 ELSE "-",
                       live |-> IF applied THEN start.live ELSE NullCfg]
    /\ dns_groups' = NoGroups
    /\ dns_group' = NullCfg
    /\ IS_ADMIN' = FALSE
    /\ args' = NoArgs
    /\ callNo' = 0
    /\ ip_ver' = "-" /\ index' = 0 /\ new_dns' = "-"
    /\ old_dns' = "-" /\ true_dns' = "-"
    /\ outcome' = "-"
    /\ err' = "-"
    /\ out' = << >>
    /\ nDel' = 0 /\ nAdd' = 0 /\ nRead' = 0 /\ nPersist' = 0
    /\ calls' = << >>
    /\ results' = << >>
    /\ osReflects' = TRUE
    /\ entry' = NoEntry
    /\ start' = [live |-> NullCfg, disk |-> NoGroups]
    /\ repeatOf' = "-"
    /\ unconfirmed' = FALSE
    /\ conf4p' = << >>
    /\ UNCHANGED << live, disk, lastCall, runs >>

---------------------------------------------------------------------------
(* main *)

\* if args["set"]: if not IS_ADMIN: if not quiet: ... (lines 166-171).
\* main has no variable named quiet and the module has no such global:
\* evaluating the condition raises NameError.
PrivilegeGate ==
    /\ pc = "main"
    /\ args.set /\ ~IS_ADMIN
    /\ Raise("NameError")
    /\ UNCHANGED << live, disk, dns_groups, dns_group, IS_ADMIN, args,
                    locals, outcome, out, counters, history >>

\* Entering set_dns(v, i, a): the call's parameters and the snapshots the
\* properties compare against.
Enter(v, i, a) ==
    /\ ip_ver' = v /\ index' = i /\ new_dns' = a
    /\ old_dns' = "-" /\ true_dns' = "-"
    /\ outcome' = "-"
    /\ pc' = "set_dns"
    /\ calls' = Append(calls, <<v, i>>)
    /\ entry' = [live |-> live, prev |-> dns_groups["/prev"],
                 curr |-> dns_groups["/curr"],
                 nDel |-> nDel, nAdd |-> nAdd, nRead |-> nRead]
    /\ repeatOf' = IF /\ lastCall.ip_ver = v /\ lastCall.index = i
                      /\ lastCall.new_dns = a
                   THEN lastCall.outcome ELSE "-"
    /\ lastCall' = [ip_ver |-> v, index |-> i, new_dns |-> a,
                    outcome |-> "raised"]

\* set -S: resolve the tier and call set_dns once (lines 174-187).
SingleResolve ==
    /\ pc = "main"
    /\ args.set /\ IS_ADMIN /\ args.single
    /\ LET tier == Lower(args.tier)
       IN  IF TierMatches(tier)
           THEN /\ Enter(Lower(args.ip_ver), TierIndex(tier),
                         Lower(args.new_dns))
                /\ callNo' = 1
                /\ err' = err
           ELSE /\ Raise("ValueError")
                /\ UNCHANGED << locals, outcome, calls, entry, repeatOf,
                                lastCall >>
    /\ UNCHANGED << live, disk, dns_groups, dns_group, IS_ADMIN, args, out,
                    counters, results, osReflects, start, unconfirmed,
                    conf4p, prevRun, runs >>

\* set -G: dns_group = dns_groups[args["<dns_group>"].lower()] (line 195)
GroupLookup ==
    /\ pc = "main"
    /\ args.set /\ IS_ADMIN /\ args.group
    /\ LET name == Lower(args.dns_group)
       IN  IF name \in DOMAIN dns_groups
           THEN /\ dns_group' = dns_groups[name]
                /\ callNo' = 1
                /\ pc' = "group_arg"
                /\ err' = err
           ELSE /\ Raise("KeyError")
                /\ UNCHANGED << dns_group, callNo >>
    /\ UNCHANGED << live, disk, dns_groups, IS_ADMIN, args, ip_ver, index,
                    new_dns, old_dns, true_dns, outcome, out, counters,
                    history >>

\* set_dns(ver, i, dns_group[ver][i - 1], ...): the argument is evaluated
\* when the call is reached (lines 196-199).
GroupArg ==
    /\ pc = "group_arg"
    /\ LET v == GroupOrder[callNo][1]
           i == GroupOrder[callNo][2]
       IN  IF PyInRange(dns_group[v], i - 1)
           THEN /\ Enter(v, i, PyGet(dns_group[v], i - 1))
                /\ err' = err
           ELSE /\ Raise("IndexError")
                /\ UNCHANGED << ip_ver, index, new_dns, old_dns, true_dns,
                                outcome, calls, entry, repeatOf, lastCall >>
    /\ UNCHANGED << live, disk, dns_groups, dns_group, IS_ADMIN, args,
                    callNo, out, counters, results, osReflects, start,
                    unconfirmed, conf4p, prevRun, runs >>

---------------------------------------------------------------------------
(* set_dns *)

\* print(...) unless quiet (lines 125, 143-148)
Say(line) == out' = IF args.quiet THEN out ELSE Append(out, line)

\* set_dns returns None with the given outcome.
Return(o) ==
    /\ outcome' = o
    /\ lastCall' = [lastCall EXCEPT !.outcome = o]
    /\ results' = Append(results,
                         [ip_ver |-> ip_ver, index |-> index,
                          old_dns |-> IF o = "Unchanged" THEN new_dns
                                      ELSE old_dns,
                          new_dns |-> new_dns, outcome |-> o])
    /\ pc' = AfterReturn
    /\ callNo' = IF AfterReturn = "group_arg" THEN callNo + 1 ELSE callNo
    /\ err' = err

\* Lines 112-126: the tier check, the lookup of old_dns in /curr and the
\* early return when the entry is already set.
set_dns_check ==
    /\ pc = "set_dns"
    /\ LET curr == dns_groups["/curr"][ip_ver]
       IN  IF Unsupported(index)
           THEN /\ Raise("NotImplementedError")
                /\ UNCHANGED << old_dns, outcome, out, callNo, lastCall,
                                results >>
           ELSE IF ~PyInRange(curr, index - 1)
           THEN /\ Raise("IndexError")
                /\ UNCHANGED << old_dns, outcome, out, callNo, lastCall,
                                results >>
           ELSE /\ old_dns' = PyGet(curr, index - 1)
                /\ IF AlreadySet(old_dns', new_dns)
                   THEN /\ Say(<<IPvX(ip_ver), index_to_tier(index),
                                 "DNS already set to", new_dns>>)
                        /\ Return("Unchanged")
                   ELSE /\ pc' = "del"
                        /\ UNCHANGED << outcome, out, callNo, lastCall,
                                        results, err >>
    /\ UNCHANGED << live, disk, dns_groups, dns_group, IS_ADMIN, args,
                    ip_ver, index, new_dns, true_dns, counters, calls,
                    osReflects, entry, start, repeatOf, unconfirmed, conf4p,
                    prevRun, runs >>

\* Line 129: netsh ... del dns; the exit status is not looked at.
set_dns_delete ==
    /\ pc = "del"
    /\ \E ok \in BOOLEAN :
        LET effect == ok /\ CanDel(live, ip_ver, old_dns)
        IN  /\ live' = IF effect THEN netsh_del(live, ip_ver, old_dns)
                       ELSE live
            /\ osReflects' = (osReflects /\ effect)
    /\ nDel' = nDel + 1
    /\ pc' = "add"
    /\ UNCHANGED << disk, dns_groups, dns_group, IS_ADMIN, args, locals,
                    outcome, err, out, nAdd, nRead, nPersist, calls, results,
                    entry, start, lastCall, repeatOf, unconfirmed, conf4p, prevRun,
                    runs >>

\* An insert that goes back to the delete when it did not take effect.
set_dns_insert_retry ==
    /\ pc = "add"
    /\ \E ok \in BOOLEAN :
        LET effect == ok /\ CanAdd(live, ip_ver, new_dns, index)
        IN  /\ live' = IF effect THEN netsh_add(live, ip_ver, new_dns, index)
                       ELSE live
            /\ osReflects' = (osReflects /\ effect)
            /\ pc' = IF effect THEN "refresh" ELSE "del"
    /\ nAdd' = nAdd + 1
    /\ UNCHANGED << disk, dns_groups, dns_group, IS_ADMIN, args, locals,
                    outcome, err, out, nDel, nRead, nPersist, calls, results,
                    entry, start, lastCall, repeatOf, unconfirmed, conf4p,
                    prevRun, runs >>

\* Line 132: netsh ... add dns; the exit status is not looked at.
set_dns_insert ==
    /\ pc = "add"
    /\ \E ok \in BOOLEAN :
        LET effect == ok /\ CanAdd(live, ip_ver, new_dns, index)
        IN  /\ live' = IF effect THEN netsh_add(live, ip_ver, new_dns, index)
                       ELSE live
            /\ osReflects' = (osReflects /\ effect)
    /\ nAdd' = nAdd + 1
    /\ pc' = "refresh"
    /\ UNCHANGED << disk, dns_groups, dns_group, IS_ADMIN, args, locals,
                    outcome, err, out, nDel, nRead, nPersist, calls, results,
                    entry, start, lastCall, repeatOf, unconfirmed, conf4p, prevRun,
                    runs >>

\* Lines 135-136: re-read the interface into /curr and take the entry at
\* the tier as true_dns.
set_dns_refresh ==
    /\ pc = "refresh"
    /\ nRead' = nRead + 1
    /\ LET cur == get_curr_dns_servers(live)
       IN  IF ~cur.found
           THEN /\ Raise("AttributeError")
                /\ UNCHANGED << dns_groups, true_dns >>
           ELSE /\ dns_groups' = RefreshCurrent(dns_groups, Cfg(cur))
                /\ IF PyInRange(cur[ip_ver], index - 1)
                   THEN /\ true_dns' = PyGet(cur[ip_ver], index - 1)
                        /\ pc' = "record"
                        /\ err' = err
                   ELSE /\ Raise("IndexError")
                        /\ UNCHANGED true_dns
    /\ UNCHANGED << live, disk, dns_group, IS_ADMIN, args, callNo, ip_ver,
                    index, new_dns, old_dns, outcome, out, nDel, nAdd,
                    nPersist, history >>

\* Lines 138-151: update /prev when the change took effect, tell the user,
\* return.
set_dns_record ==
    /\ pc = "record"
    /\ IF TookEffect(true_dns, new_dns)
       THEN IF PyInRange(dns_groups["/prev"][ip_ver], index - 1)
            THEN /\ dns_groups' = RecordPrevious(dns_groups, ip_ver, index,
                                                 old_dns, new_dns)
                 /\ dns_group' = IF Aliased THEN dns_groups'["/prev"]
                                 ELSE dns_group
                 /\ Say(<<"Configured", IPvX(ip_ver), index_to_tier(index),
                          "DNS to", new_dns>>)
                 /\ Return("Confirmed")
                 /\ conf4p' = IF ip_ver = "ipv4" /\ index = 1
                              THEN <<old_dns, new_dns>> ELSE conf4p
                 /\ UNCHANGED unconfirmed
            ELSE /\ Raise("IndexError")
                 /\ UNCHANGED << dns_groups, dns_group, out, outcome,
                                 lastCall, results, callNo, conf4p,
                                 unconfirmed >>
       ELSE /\ Say(<<IPvX(ip_ver), index_to_tier(index),
                     "DNS not set correctly (Unknown Error)">>)
            /\ Return("Unconfirmed")
            /\ unconfirmed' = TRUE
            /\ UNCHANGED << dns_groups, dns_group, conf4p >>
    /\ UNCHANGED << live, disk, IS_ADMIN, args, ip_ver, index, new_dns,
                    old_dns, true_dns, counters, calls, osReflects, entry,
                    start, repeatOf, prevRun, runs >>

---------------------------------------------------------------------------
(* End of a set request, and the get requests *)

\* dns_groups.pop("/curr"); json.dump(dns_groups, open(..., "w"))
\* (lines 188-190, 200-202)
Persist ==
    /\ pc = "persist"
    /\ dns_groups' = PopCurrent(dns_groups)
    /\ disk' = dns_groups'
    /\ nPersist' = nPersist + 1
    /\ pc' = "done"
    /\ UNCHANGED << live, dns_group, IS_ADMIN, args, locals, outcome, err,
                    out, nDel, nAdd, nRead, history >>

\* key.title() on the catalog's keys (line 210)
title(k) ==
    IF k = "quad9" THEN "Quad9"
    ELSE IF k = "solo" THEN "Solo"
    ELSE IF k = "/prev" THEN "/Prev"
    ELSE "/Curr"

\* The keys of dns_groups in insertion order: the file's, then /curr.
KeyOrder == <<"quad9", "solo", "/prev", "/curr">>

\* A printout that stops after the reserve entry.
ListingTopTwo(g) ==
    [i \in 1..(IF Len(g.ipv6) < 2 THEN Len(g.ipv6) ELSE 2) |->
        <<"IPv6", index_to_tier(i), "DNS:", g.ipv6[i]>>]
    \o
    [i \in 1..(IF Len(g.ipv4) < 2 THEN Len(g.ipv4) ELSE 2) |->
        <<"IPv4", index_to_tier(i), "DNS:", g.ipv4[i]>>]

\* The printout of one group (lines 217-226).
Listing(g) ==
    [i \in 1..Len(g.ipv6) |-> <<"IPv6", index_to_tier(i), "DNS:", g.ipv6[i]>>]
    \o
    [i \in 1..Len(g.ipv4) |-> <<"IPv4", index_to_tier(i), "DNS:", g.ipv4[i]>>]

\* get /groups and get <dns_group> (lines 205-226)
Query ==
    /\ pc = "main"
    /\ args.get
    /\ IF args.groups
       THEN /\ out' = [i \in 1..Len(KeyOrder) |-> title(KeyOrder[i])]
            /\ pc' = "done"
            /\ err' = err
       ELSE LET name == Lower(args.dns_group)
            IN  IF name \in DOMAIN dns_groups
                THEN /\ out' = Listing(dns_groups[name])
                     /\ pc' = "done"
                     /\ err' = err
                ELSE /\ Raise("KeyError")
                     /\ UNCHANGED out
    /\ UNCHANGED << live, disk, dns_groups, dns_group, IS_ADMIN, args,
                    locals, outcome, counters, history >>

---------------------------------------------------------------------------

Next ==
    \/ Start
    \/ Exit
    \/ PrivilegeGate
    \/ SingleResolve
    \/ GroupLookup
    \/ GroupArg
    \/ set_dns_check
    \/ set_dns_delete
    \/ set_dns_insert
    \/ set_dns_refresh
    \/ set_dns_record
    \/ Persist
    \/ Query

Spec == Init /\ [][Next]_vars

---------------------------------------------------------------------------
(* Properties *)

Finished == pc \in {"done", "crashed"}
InSetDns == pc \in {"set_dns", "del", "add", "refresh", "record"}
Running == pc \in {"main", "group_arg", "persist"} \/ InSetDns

\* C1: a set request (-G or -S, quiet or not) run without elevation issues
\* no netsh del or add, does not write dns_groups.json, and ends by telling
\* the user that Admin access is required rather than by an exception.
\* (A process whose first ipconfig read already failed never reaches the
\* privilege check and is left out.)
C1_PrivilegeGate ==
    (args.set /\ ~IS_ADMIN /\ Finished /\ err # "AttributeError")
        => /\ nDel = 0 /\ nAdd = 0 /\ nPersist = 0
           /\ disk = start.disk
           /\ pc = "done" /\ err = "-"

\* C2: whenever a set_dns call for tier 1 or 2 has ended Confirmed, /prev
\* at that protocol version and tier holds the address the interface had
\* there when the call was entered, whatever calls came before it.
C2_ConfirmedRecordsLive ==
    (outcome = "Confirmed" /\ index \in {1, 2})
        => /\ Len(entry.live[ip_ver]) >= index
           /\ Len(dns_groups["/prev"][ip_ver]) >= index
           /\ dns_groups["/prev"][ip_ver][index] = entry.live[ip_ver][index]

C2_Witness ==
    /\ outcome = "Confirmed" /\ index = 2 /\ Len(calls) = 4
    /\ unconfirmed

SecondCallUnchanged ==
    /\ pc = "set_dns" \/ outcome = "Unchanged"
    /\ nDel = entry.nDel /\ nAdd = entry.nAdd

\* C4 as stated: a set_dns call with the protocol version, tier (1 or 2)
\* and target of the set_dns call before it ends Unchanged without issuing
\* a netsh command, however that earlier call ended.
C4_IdempotentAnyOutcome ==
    (repeatOf \in {"Unchanged", "Confirmed", "Unconfirmed"}
     /\ index \in {1, 2})
        => SecondCallUnchanged

\* C4 amended: a set_dns call with the protocol version, tier (1 or 2) and
\* target of the set_dns call before it ends Unchanged without issuing a
\* netsh command, when that earlier call ended Confirmed or Unchanged.
C4_IdempotentAfterSuccess ==
    (repeatOf \in {"Unchanged", "Confirmed"} /\ index \in {1, 2})
        => SecondCallUnchanged

C4_Witness ==
    /\ repeatOf = "Confirmed" /\ outcome = "Unchanged"
    /\ index \in {1, 2}

\* C5: dns_groups.json never holds a /curr entry, while the process holds
\* one in memory from its start until it writes the file.
C5_CurrentNeverOnDisk ==
    /\ "/curr" \notin DOMAIN disk
    /\ (Running => "/curr" \in DOMAIN dns_groups)

C5_Witness ==
    /\ pc = "done" /\ nPersist = 1
    /\ disk # start.disk
    /\ "/curr" \notin DOMAIN dns_groups

\* C6: a set_dns call that finds its target at the tier (1 or 2) of /curr
\* returns Unchanged in that step: no netsh del, no netsh add, no re-read,
\* and dns_groups (so /prev and /curr) and the interface as they were.
C6_UnchangedPath ==
    [][ (/\ pc = "set_dns" /\ index \in {1, 2}
         /\ Len(dns_groups["/curr"][ip_ver]) >= index
         /\ dns_groups["/curr"][ip_ver][index] = new_dns)
            => /\ outcome' = "Unchanged"
               /\ pc' \in {"group_arg", "persist"}
               /\ nDel' = nDel /\ nAdd' = nAdd /\ nRead' = nRead
               /\ dns_groups' = dns_groups
               /\ live' = live ]_vars

C6_Witness ==
    /\ outcome = "Unchanged" /\ Len(calls) = 4
    /\ nDel > 0

\* C7: a set_dns call whose re-read shows another address than the target
\* at the tier ends Unconfirmed with /prev as it was at every position, and
\* the process goes on: having seen an Unconfirmed call it still makes all
\* its set_dns calls and ends by writing dns_groups.json.  (Stated for
\* processes that found at least two servers of each protocol version.)
C7_UnconfirmedIsNotFatal ==
    /\ (outcome = "Unconfirmed" => dns_groups["/prev"] = entry.prev)
    /\ ((/\ unconfirmed /\ Finished
         /\ Len(start.live.ipv6) >= 2 /\ Len(start.live.ipv4) >= 2)
            => /\ pc = "done" /\ nPersist = 1
               /\ (args.group => Len(calls) = 4))

\* C8: an elevated "set -S" whose tier resolves to an index above 2 ends
\* with NotImplementedError in the set_dns call it makes: no netsh del or
\* add, /prev as loaded, dns_groups.json not written.
C8_UnsupportedTier ==
    (/\ args.set /\ args.single /\ IS_ADMIN
     /\ TierMatches(Lower(args.tier))
     /\ TierIndex(Lower(args.tier)) > 2
     /\ calls # << >>)
        => /\ pc \in {"set_dns", "crashed"}
           /\ (pc = "crashed" => err = "NotImplementedError")
           /\ nDel = 0 /\ nAdd = 0 /\ nPersist = 0
           /\ disk = start.disk
           /\ dns_groups["/prev"] = start.disk["/prev"]

C8_Witness ==
    /\ pc = "crashed" /\ err = "NotImplementedError"
    /\ args.tier = "3" /\ calls = << <<"ipv4", 3>> >>

\* C9: a "set -G" naming a group whose ipv6 or ipv4 list has fewer than two
\* addresses issues no netsh del or add at all and ends with an error.
C9_ShortGroupNoMutation ==
    (/\ args.set /\ args.group /\ IS_ADMIN /\ callNo >= 1
     /\ (Len(dns_group.ipv6) < 2 \/ Len(dns_group.ipv4) < 2))
        => /\ nDel = 0 /\ nAdd = 0
           /\ (Finished => pc = "crashed")

\* C10: a set -G that reaches its end has called set_dns exactly four
\* times, for ipv6 tier 1, ipv6 tier 2, ipv4 tier 1, ipv4 tier 2 in that
\* order, and written dns_groups.json once, after the fourth call returned;
\* a set -S has called set_dns once and then written the file once.  No
\* write is ever followed by another set_dns call or write.
C10_OrderAndSinglePersist ==
    LET order == << <<"ipv6", 1>>, <<"ipv6", 2>>,
                    <<"ipv4", 1>>, <<"ipv4", 2>> >>
    IN  /\ nPersist <= 1
        /\ (nPersist = 1 => pc = "done")
        /\ (args.group => calls = SubSeq(order, 1, Len(calls)))
        /\ ((args.set /\ args.group /\ pc \in {"persist", "done"})
                => /\ calls = order
                   /\ outcome \in {"Unchanged", "Confirmed", "Unconfirmed"}
                   /\ (pc = "done" => nPersist = 1))
        /\ ((args.set /\ args.single /\ pc \in {"persist", "done"})
                => /\ calls = << <<ip_ver, index>> >>
                   /\ outcome \in {"Unchanged", "Confirmed", "Unconfirmed"}
                   /\ (pc = "done" => nPersist = 1))

C10_Witness ==
    /\ pc = "done" /\ args.group /\ nPersist = 1
    /\ Len(calls) = 4 /\ nAdd = 4

\* The first two entries of a list.
TopTwo(s) == SubSeq(s, 1, 2)

\* The group a set -G names, as loaded from the file or, for /curr, as read
\* from the interface at start.
Named ==
    IF Lower(args.dns_group) = "/curr" THEN start.live
    ELSE start.disk[Lower(args.dns_group)]

\* This process is an elevated set -G of a group with two addresses per
\* protocol version, started on an interface whose primary and reserve
\* addresses all differ from the group's at the same position.
AllFourDiffer ==
    /\ args.set /\ args.group /\ IS_ADMIN
    /\ Lower(args.dns_group) \in DOMAIN start.disk
    /\ \A v \in {"ipv6", "ipv4"} :
          /\ Len(Named[v]) >= 2 /\ Len(start.live[v]) >= 2
          /\ \A i \in 1..2 : Named[v][i] # start.live[v][i]

\* C11: an elevated set -G of a group whose four addresses all differ from
\* the interface's primary and reserve addresses, with every netsh command
\* taking effect, ends normally after four set_dns calls that each ended
\* Confirmed; /prev then holds the four addresses the interface started
\* with, each at its protocol version and tier, the interface's primary and
\* reserve addresses are the group's, and the file has no /curr key.
C11_EndToEnd ==
    (AllFourDiffer /\ Finished /\ osReflects)
        => /\ pc = "done" /\ nPersist = 1
           /\ Len(results) = 4
           /\ \A k \in 1..4 :
                 /\ results[k].outcome = "Confirmed"
                 /\ <<results[k].ip_ver, results[k].index>> = GroupOrder[k]
           /\ \A v \in {"ipv6", "ipv4"} :
                 /\ TopTwo(disk["/prev"][v]) = TopTwo(start.live[v])
                 /\ TopTwo(dns_groups["/prev"][v]) = TopTwo(start.live[v])
                 /\ TopTwo(live[v]) = TopTwo(Named[v])
           /\ "/curr" \notin DOMAIN disk

C11_Witness ==
    /\ AllFourDiffer /\ pc = "done" /\ osReflects
    /\ Lower(args.dns_group) = "quad9"
    /\ live.ipv4 = <<"9.9.9.9", "149.112.112.112">>
    /\ disk["/prev"].ipv6 = <<"2606:4700:4700::1111", "2606:4700:4700::1001">>
    /\ nDel = 4 /\ nAdd = 4

\* C12: the read of the interface a process makes at its start returns
\* exactly the interface's ipv6 servers and ipv4 servers, in order, however
\* many there are of each (none included), and nothing of the section that
\* follows them.
C12_ExtractorRoundTrip ==
    (pc # "idle" /\ nDel = 0 /\ nAdd = 0 /\ nPersist = 0)
        => /\ err # "AttributeError"
           /\ dns_groups["/curr"] = start.live

\* The label a listing gives position i.
Label(i) ==
    IF i = 1 THEN <<"Primary">> ELSE IF i = 2 THEN <<"Reserve">>
    ELSE <<"Index", i>>

\* C13: a get request, elevated or not, issues no netsh del or add, calls
\* set_dns never, does not write dns_groups.json, and leaves the interface
\* and every group, /prev included, as loaded; get <dns_group> prints one
\* line per address of the group, ipv6 then ipv4, each in list order, with
\* positions from 3 on labelled "Index N"; get /groups prints one name per
\* group, /prev and /curr included.
C13_QueryReadOnly ==
    args.get
        => /\ nDel = 0 /\ nAdd = 0 /\ nPersist = 0 /\ calls = << >>
           /\ disk = start.disk /\ live = start.live
           /\ [n \in DOMAIN dns_groups \ {"/curr"} |-> dns_groups[n]]
                 = start.disk
           /\ ((pc = "done" /\ args.groups)
                 => /\ Len(out) = Cardinality(DOMAIN dns_groups)
                    /\ {"/Prev", "/Curr"} \subseteq Range(out))
           /\ ((pc = "done" /\ ~args.groups)
                 => LET g == dns_groups[Lower(args.dns_group)]
                        n6 == Len(g.ipv6)
                    IN  /\ Len(out) = n6 + Len(g.ipv4)
                        /\ \A i \in 1..n6 :
                              out[i] = <<"IPv6", Label(i), "DNS:", g.ipv6[i]>>
                        /\ \A i \in 1..Len(g.ipv4) :
                              out[n6 + i] =
                                  <<"IPv4", Label(i), "DNS:", g.ipv4[i]>>)

C13_Witness ==
    /\ args.get /\ ~IS_ADMIN /\ pc = "done"
    /\ Lower(args.dns_group) = "/prev"
    /\ Len(out) = 5
    /\ out[5] = <<"IPv4", <<"Index", 3>>, "DNS:", "149.112.112.112">>

\* C14: "primary" and "1" resolve to the same index, and so do "reserve"
\* and "2" (in any letter case): the one set_dns call of a set -S has the
\* lower-cased protocol version and address of the request and index 1 for
\* either spelling of the primary tier, index 2 for either spelling of the
\* reserve tier.  Nothing after that call reads the tier argument, so the
\* netsh commands and the file written are those of the call.
C14_TierSpelling ==
    /\ TierIndex("primary") = TierIndex("1")
    /\ TierIndex("reserve") = TierIndex("2")
    /\ ((args.single /\ calls # << >>)
          => /\ Len(calls) = 1
             /\ calls[1][1] = Lower(args.ip_ver)
             /\ (Lower(args.tier) \in {"primary", "1"} => calls[1][2] = 1)
             /\ (Lower(args.tier) \in {"reserve", "2"} => calls[1][2] = 2)
             /\ ip_ver = calls[1][1] /\ index = calls[1][2]
             /\ new_dns = Lower(args.new_dns))

C14_Witness ==
    /\ args.single /\ args.tier = "2" /\ pc = "done"
    /\ outcome = "Confirmed" /\ index = 2
    /\ repeatOf = "Unconfirmed"

\* C15: the process before this one was a set -G that ended normally with
\* every netsh command having taken effect (some of its calls may have ended
\* Unchanged); this one is an elevated set -G /prev that ended normally, again
\* with every netsh command having taken effect.  Then the interface's
\* primary and reserve addresses, ipv6 and ipv4, are those it had when the
\* earlier process started, whatever /prev held before.  (Stated for an
\* earlier process that changed at least the ipv4 primary.)
C15_WholeRollback ==
    (/\ pc = "done" /\ args.set /\ args.group /\ IS_ADMIN
     /\ Lower(args.dns_group) = "/prev"
     /\ prevRun.group # "-" /\ prevRun.conf4p # << >>
     /\ osReflects)
        => \A v \in {"ipv6", "ipv4"} :
              TopTwo(live[v]) = TopTwo(prevRun.live[v])

\* C16: netsh del and netsh add are only ever issued by set_dns calls for
\* index 1 or 2; an elevated set -S whose tier resolves to another index
\* (0 included) issues neither, leaves /prev as loaded and does not write
\* dns_groups.json.
C16_TiersOneAndTwoOnly ==
    /\ (pc \in {"add", "refresh", "record"} => index \in {1, 2})
    /\ ((args.set /\ args.single /\ calls # << >> /\ index \notin {1, 2})
          => /\ nDel = 0 /\ nAdd = 0 /\ nPersist = 0
             /\ dns_groups["/prev"] = start.disk["/prev"]
             /\ disk = start.disk)

\* C17: when a set process has ended, normally or by an exception, every
\* set_dns call of it that ended Confirmed has the address it replaced in
\* the file's /prev, at the call's protocol version and tier.
C17_ConfirmedIsSaved ==
    (args.set /\ Finished)
        => \A k \in 1..Len(results) :
              (results[k].outcome = "Confirmed" /\ results[k].index \in {1, 2})
                  => disk["/prev"][results[k].ip_ver][results[k].index]
                         = results[k].old_dns

\* Commands issued since the current set_dns call was entered.
Issued == <<nDel - entry.nDel, nAdd - entry.nAdd, nRead - entry.nRead>>

\* C18: a set_dns call issues its commands in the order delete, insert,
\* re-read, each once: before the delete it has issued nothing, before the
\* insert one delete, before the re-read one delete and one insert, and
\* when it returns Confirmed or Unconfirmed exactly one of each; /prev is
\* as it was at entry until the re-read is done; a call that returns
\* Unchanged has issued nothing.
C18_DeleteInsertReread ==
    /\ (pc \in {"set_dns", "del"} => Issued = <<0, 0, 0>>)
    /\ (pc = "add" => Issued = <<1, 0, 0>>)
    /\ (pc = "refresh" => Issued = <<1, 1, 0>>)
    /\ (pc = "record" => Issued = <<1, 1, 1>>)
    /\ (pc \in {"set_dns", "del", "add", "refresh", "record"}
          => dns_groups["/prev"] = entry.prev)
    /\ (outcome \in {"Confirmed", "Unconfirmed"} => Issued = <<1, 1, 1>>)
    /\ (outcome = "Unchanged" => Issued = <<0, 0, 0>>)

C18_Witness ==
    /\ outcome = "Unconfirmed" /\ Issued = <<1, 1, 1>>
    /\ pc = "group_arg" /\ callNo = 3 /\ nDel = 2

\* C19: whenever set_dns is about to read dns_groups["/curr"] (line 121),
\* in any of the calls of a process and whatever the outcomes of the calls
\* before it, /curr holds exactly the interface's server lists.
C19_CurrentIsLive ==
    pc = "set_dns" => dns_groups["/curr"] = live

C19_Witness ==
    /\ pc = "set_dns" /\ Len(results) = 3
    /\ {results[k].outcome : k \in 1..3}
          = {"Unchanged", "Confirmed", "Unconfirmed"}
    /\ live # start.live

\* Every group of the file but /prev is as loaded, in memory and in the
\* file, and the file has the groups it had.
NamedGroupsAsLoaded ==
    /\ DOMAIN disk = DOMAIN start.disk
    /\ DOMAIN dns_groups \ {"/curr"} = DOMAIN start.disk
    /\ \A n \in DOMAIN start.disk \ {"/prev"} :
          disk[n] = start.disk[n] /\ dns_groups[n] = start.disk[n]

\* g's /prev differs from the loaded one at positions 1 and 2 at most.
PrevBeyondReserveAsLoaded(g) ==
    \A v \in {"ipv6", "ipv4"} :
        /\ Len(g["/prev"][v]) = Len(start.disk["/prev"][v])
        /\ \A i \in 3..Len(g["/prev"][v]) :
              g["/prev"][v][i] = start.disk["/prev"][v][i]

\* C20: while a process runs and when it has ended, every group other than
\* /prev and /curr is as it was loaded, in memory and in dns_groups.json
\* (set -G /prev included), and /prev differs from the loaded /prev at
\* positions 1 and 2 at most.
C20_NamedGroupsFixed ==
    pc # "idle"
        => /\ NamedGroupsAsLoaded
           /\ PrevBeyondReserveAsLoaded(dns_groups)
           /\ PrevBeyondReserveAsLoaded(disk)

====
